---- MODULE Spec2Model ----
(***************************************************************************)
(* License server (src/license_server.py): PASETO tokens, the `licenses`   *)
(* table, the validate endpoint and the admin create/list/update           *)
(* endpoints.                                                              *)
(*                                                                         *)
(* Time is counted in clock ticks, TicksPerDay ticks to a day.  Every      *)
(* handler is an `async def` without an await, so one handler runs from    *)
(* its first to its last statement before the next one starts; the only    *)
(* thing that moves underneath a running handler is the clock, which each  *)
(* datetime.utcnow() reads afresh.                                         *)
(*                                                                         *)
(* Spec takes each handler as one step.  SpecDays is Spec with licenses    *)
(* created for zero or fewer days.  SpecSteps takes the handlers statement *)
(* by statement, with two clients whose requests may arrive while another  *)
(* is in flight, the sqlite connections and the write transaction; there   *)
(* the event loop is the guard Runnable.                                   *)
(*                                                                         *)
(* pyseto is an external library.  It is modelled by the contract its two  *)
(* call sites rely on: encode seals the claims and the footer under the    *)
(* key with a fresh nonce, decode returns the claims of a token sealed     *)
(* under the same key and footer and raises for anything else.             *)
(***************************************************************************)
EXTENDS Integers, Sequences, FiniteSets, TLC

VARIABLES
    licenses,   \* the rows of table `licenses`, as committed
    now,        \* the wall clock, in ticks
    last,       \* the call that ran last: its arguments, clock reads, response
    revoked,    \* history: keys whose latest applied active-update was False
    ledger,     \* history: key -> expiry at insertion, days added since
    calls,      \* statement by statement: the request each client has in flight
    pending,    \* the table as the connection in a write transaction sees it
    writer,     \* the client whose connection holds the write transaction
    garbage,    \* connections left open by calls that have ended
    sent,       \* requests sent so far
    before,     \* history: the table when the current batch began
    overlapped  \* history: a request of the batch arrived while another was in flight

vars == <<licenses, now, last, revoked, ledger,
          calls, pending, writer, garbage, sent, before, overlapped>>

\* what the calls taken as single steps leave alone
steps == <<calls, pending, writer, garbage, sent, before, overlapped>>

----------------------------------------------------------------------------
(* Bounds of the model *)

TicksPerDay == 2      \* clock resolution: ticks in one day (timedelta(days=1))
MaxTime == 1          \* the clock stops advancing here
MaxExtend == 2        \* days the admin's updates add or take, summed over all licenses

CreateDays == {0, 1}      \* License.days
UpdateDays == {-1, 1}         \* LicenseUpdate.days, when given
NonPositiveDays == {-1, 0}    \* License.days <= 0
ExtendDays == {1}             \* LicenseUpdate.days of the calls taken statement by statement
Nonces == {1}                 \* the nonces pyseto draws, each at most once

----------------------------------------------------------------------------
(* Python values *)

None == <<>>                      \* Optional[x]: None, or Some(x)
Some(x) == <<x>>
Get(o) == o[1]

\* datetime -> text: datetime.isoformat() and sqlite3's datetime adapter
IsoFormat(t) == [iso |-> t]

\* text -> datetime: datetime.fromisoformat
FromIsoFormat(s) == s.iso

\* datetime.strftime("%Y-%m-%d"): the date, the time of day dropped
StrfDate(t) == t \div TicksPerDay

\* mutant: the days added as if they were ticks
PlusTicks(t, d) == t + d

\* mutant: days below one counted as one
PlusDaysAtLeastOne(t, d) == t + (IF d < 1 THEN 1 ELSE d) * TicksPerDay

\* datetime + timedelta(days=d)
PlusDays(t, d) == t + d * TicksPerDay

\* The successive datetime.utcnow() readings of one call that starts at clock
\* value t and makes n readings: a call is over in less than a tick, so at
\* most one tick boundary falls between two of its readings.
Readings(t, n) ==
    {[i \in 1 .. n |-> IF i < k THEN t ELSE t + 1] : k \in {j \in 2 .. n + 1 : j > n \/ t < MaxTime}}

----------------------------------------------------------------------------
(* Tokens *)

FOOTER == "license-v1"

Users == {"alice"}
Plans == {"Pro"}

\* The claims sub, plan and exp, sealed with the footer under a fresh nonce n.
\* (The iat claim is sealed too; nothing ever reads it, and the nonce already
\* tells two tokens of equal claims apart.)
generate_paseto_token(username, plan, expires_at, n) ==
    [sub |-> Some(username), plan |-> Some(plan),
     exp |-> Some(IsoFormat(expires_at)),
     nonce |-> n, footer |-> FOOTER, seal |-> "ok"]

\* mutant: the seal is not verified
DecodesUnsealed(token) == token.footer = FOOTER

\* mutant: the footer is not compared
DecodesAnyFooter(token) == token.seal = "ok"

\* pyseto.decode(SECRET_KEY, token, footer=b"license-v1") does not raise
Decodes(token) == token.seal = "ok" /\ token.footer = FOOTER

\* verify_paseto_token(token), when it does not raise: the payload dict
verify_paseto_token(token) == [sub |-> token.sub, plan |-> token.plan, exp |-> token.exp]

\* A token sealed elsewhere under the same key and footer, never created here.
Minted ==
    [sub |-> Some("bob"), plan |-> Some("Basic"),
     exp |-> Some(IsoFormat(0)),
     nonce |-> 0, footer |-> FOOTER, seal |-> "ok"]

\* tokens that decode and are not in the table: the one above, and one sealed
\* without an exp claim
ForeignTokens ==
    { Minted,
      [Minted EXCEPT !.exp = None] }

\* a token with a bit flipped
Tampered(token) == [token EXCEPT !.seal = "tampered"]

\* a token sealed under the same key for another context
BadTokens ==
    { [Minted EXCEPT !.footer = "other-app"] }

Keys == {r.key : r \in licenses}

\* what a client may present
Presented ==
    Keys \cup ForeignTokens \cup BadTokens \cup {Tampered(k) : k \in Keys}

----------------------------------------------------------------------------
(* Table licenses *)

\* SELECT ... FROM licenses WHERE key = ?
Select(key) == {r \in licenses : r.key = key}

\* key TEXT UNIQUE NOT NULL, username/plan/expires_at NOT NULL
InsertOk(key, username, plan) ==
    /\ Select(key) = {}
    /\ username # None
    /\ plan # None

\* mutant: the column default is 0, a new row starts deactivated
NewRowInactive(key, username, plan, expires_at, created, last_check) ==
    [key |-> key,
     username |-> Get(username),
     plan |-> Get(plan),
     created_at |-> IsoFormat(created),
     expires_at |-> IsoFormat(expires_at),
     active |-> 0,
     last_check |-> last_check]

\* mutant: username and plan bound to each other's column
NewRowSwapped(key, username, plan, expires_at, created, last_check) ==
    [key |-> key,
     username |-> Get(plan),
     plan |-> Get(username),
     created_at |-> IsoFormat(created),
     expires_at |-> IsoFormat(expires_at),
     active |-> 1,
     last_check |-> last_check]

\* INSERT: active DEFAULT 1, created_at DEFAULT CURRENT_TIMESTAMP.  (Column id,
\* the AUTOINCREMENT row number, appears in no statement after CREATE TABLE
\* and is left out.)
NewRow(key, username, plan, expires_at, created, last_check) ==
    [key |-> key,
     username |-> Get(username),
     plan |-> Get(plan),
     created_at |-> IsoFormat(created),
     expires_at |-> IsoFormat(expires_at),
     active |-> 1,
     last_check |-> last_check]

\* mutant: the check is recorded for active licenses only
SetLastCheckIfActive(rows, key, t) ==
    {IF r.key = key /\ r.active = 1
     THEN [r EXCEPT !.last_check = Some(IsoFormat(t))] ELSE r : r \in rows}

\* mutant: the check recorded by INSERT OR REPLACE, active back at its default
SetLastCheckUpsert(rows, key, t) ==
    {IF r.key = key
     THEN [r EXCEPT !.last_check = Some(IsoFormat(t)), !.active = 1]
     ELSE r : r \in rows}

\* UPDATE licenses SET last_check = ? WHERE key = ?
SetLastCheck(rows, key, t) ==
    {IF r.key = key THEN [r EXCEPT !.last_check = Some(IsoFormat(t))] ELSE r : r \in rows}

\* mutant: the WHERE clause left out
SetActiveAll(rows, key, active) ==
    {[r EXCEPT !.active = IF active THEN 1 ELSE 0] : r \in rows}

\* UPDATE licenses SET active = ? WHERE key = ?
SetActive(rows, key, active) ==
    {IF r.key = key THEN [r EXCEPT !.active = IF active THEN 1 ELSE 0] ELSE r : r \in rows}

\* mutant: the WHERE clause left out
SetExpiresAll(rows, key, t) ==
    {[r EXCEPT !.expires_at = IsoFormat(t)] : r \in rows}

\* mutant: the row written anew (INSERT OR REPLACE), created_at with it
SetExpiresReplace(rows, key, t) ==
    {IF r.key = key
     THEN [r EXCEPT !.expires_at = IsoFormat(t), !.created_at = IsoFormat(now)]
     ELSE r : r \in rows}

\* UPDATE licenses SET expires_at = ? WHERE key = ?
SetExpires(rows, key, t) ==
    {IF r.key = key THEN [r EXCEPT !.expires_at = IsoFormat(t)] ELSE r : r \in rows}

----------------------------------------------------------------------------
(* validate_license *)

\* mutant: expired from the instant of expiry on
IsExpiredInclusive(t, expires_at) == t >= expires_at

\* datetime.utcnow() > expires_at
IsExpired(t, expires_at) == t > expires_at

\* (expires_at - datetime.utcnow()).days
DaysRemaining(expires_at, t) == (expires_at - t) \div TicksPerDay

DEACTIVATED == [valid |-> FALSE, error |-> "deactivated"]
EXPIRED == [valid |-> FALSE, error |-> "expired"]
INVALID_KEY == [valid |-> FALSE, error |-> "invalid_key"]

\* mutant: the expiry taken from the token
FoundExpiryOfToken(row, payload) == FromIsoFormat(Get(payload.exp))

\* active, expires_db = result; expires_at = fromisoformat(expires_db):
\* the row's expiry, not the token's
FoundExpiry(row, payload) == FromIsoFormat(row.expires_at)

\* mutant: the expiry check made before the active check
OutcomeExpiryFirst(payload, active, expires_at, tCheck, tRemain) ==
    IF IsExpired(tCheck, expires_at) THEN EXPIRED
    ELSE IF active = 0 THEN DEACTIVATED
    ELSE [valid |-> TRUE,
          username |-> Get(payload.sub),
          plan |-> Get(payload.plan),
          days_remaining |-> DaysRemaining(expires_at, tRemain),
          expires_at |-> StrfDate(expires_at)]

\* mutant: no expiry check
OutcomeNoExpiry(payload, active, expires_at, tCheck, tRemain) ==
    IF active = 0 THEN DEACTIVATED
    ELSE [valid |-> TRUE,
          username |-> Get(payload.sub),
          plan |-> Get(payload.plan),
          days_remaining |-> DaysRemaining(expires_at, tRemain),
          expires_at |-> StrfDate(expires_at)]

\* the checks after the store was consulted
Outcome(payload, active, expires_at, tCheck, tRemain) ==
    IF active = 0 THEN DEACTIVATED
    ELSE IF IsExpired(tCheck, expires_at) THEN EXPIRED
    ELSE [valid |-> TRUE,
          username |-> Get(payload.sub),
          plan |-> Get(payload.plan),
          days_remaining |-> DaysRemaining(expires_at, tRemain),
          expires_at |-> StrfDate(expires_at)]

Call(op, key, args, branch, reads, res) ==
    [op |-> op, key |-> key, args |-> args, branch |-> branch,
     reads |-> reads, res |-> res]

\* verify_paseto_token raises: the generic answer, the store not opened
validate_bad_token(key) ==
    /\ ~Decodes(key)
    /\ last' = Call("validate", key, None, "decode_error", None, INVALID_KEY)
    /\ UNCHANGED <<licenses, now, revoked, ledger>>

\* no row, and fromisoformat(None) or the INSERT raises: nothing is committed
validate_register_raises(key) ==
    /\ Decodes(key)
    /\ Select(key) = {}
    /\ \/ verify_paseto_token(key).exp = None
       \/ ~InsertOk(key, verify_paseto_token(key).sub, verify_paseto_token(key).plan)
    /\ last' = Call("validate", key, None, "register_error", None, INVALID_KEY)
    /\ UNCHANGED <<licenses, now, revoked, ledger>>

\* no row: first check, the token's claims become the row
validate_register(key) ==
    /\ Decodes(key)
    /\ Select(key) = {}
    /\ verify_paseto_token(key).exp # None
    /\ InsertOk(key, verify_paseto_token(key).sub, verify_paseto_token(key).plan)
    /\ LET payload == verify_paseto_token(key)
           expires_at == FromIsoFormat(Get(payload.exp))
       IN \E t \in Readings(now, 4) :
            \* t[1]: last_check, t[2]: CURRENT_TIMESTAMP, t[3]: expiry check,
            \* t[4]: days_remaining
            /\ licenses' = licenses \cup
                  {NewRow(key, payload.sub, payload.plan, expires_at, t[2],
                          Some(IsoFormat(t[1])))}
            /\ ledger' = (key :> [exp0 |-> expires_at, days |-> 0]) @@ ledger
            /\ now' = t[4]
            /\ last' = Call("validate", key, None, "register",
                            [touch |-> t[1], check |-> t[3], remain |-> t[4]],
                            Outcome(payload, 1, expires_at, t[3], t[4]))
    /\ UNCHANGED revoked

\* a row exists: its active and expires_at decide, last_check is updated
validate_found(key) ==
    /\ Decodes(key)
    /\ \E row \in Select(key) :
         LET payload == verify_paseto_token(key)
             expires_at == FoundExpiry(row, payload)
         IN \E t \in Readings(now, 3) :
              \* t[1]: last_check, t[2]: expiry check, t[3]: days_remaining
              /\ licenses' = SetLastCheck(licenses, key, t[1])
              /\ now' = t[3]
              /\ last' = Call("validate", key, None, "found",
                              [touch |-> t[1], check |-> t[2], remain |-> t[3]],
                              Outcome(payload, row.active, expires_at, t[2], t[3]))
    /\ UNCHANGED <<revoked, ledger>>

validate_license ==
    /\ \E key \in Presented :
          \/ validate_bad_token(key)
          \/ validate_register_raises(key)
          \/ validate_register(key)
          \/ validate_found(key)
    /\ UNCHANGED steps

----------------------------------------------------------------------------
(* admin_create_license *)

\* The handler for a given License.days.  The except branch (HTTP 500) needs
\* the INSERT to raise: the token is new by its nonce and pydantic has made
\* username and plan strings, so it cannot.
create_license(days) ==
    \E username \in Users : \E plan \in Plans :
    \E n \in Nonces \ {k.nonce : k \in Keys} :
    \E t \in Readings(now, 2) :
        \* t[1]: datetime.utcnow() of expires_at, t[2]: CURRENT_TIMESTAMP
        LET expires_at == PlusDays(t[1], days)
            key == generate_paseto_token(username, plan, expires_at, n)
        IN /\ InsertOk(key, Some(username), Some(plan))
           /\ licenses' = licenses \cup
                 {NewRow(key, Some(username), Some(plan), expires_at, t[2], None)}
           /\ ledger' = (key :> [exp0 |-> expires_at, days |-> 0]) @@ ledger
           /\ now' = t[2]
           /\ last' = Call("create", key,
                           [username |-> username, plan |-> plan, days |-> days],
                           "inserted", [expires |-> t[1]],
                           [success |-> TRUE, key |-> key, username |-> username,
                            plan |-> plan, expires_at |-> StrfDate(expires_at)])
           /\ UNCHANGED <<revoked, steps>>

admin_create_license == \E days \in CreateDays : create_license(days)

\* the same handler, called with the days the admin should not give
admin_create_expired == \E days \in NonPositiveDays : create_license(days)

-------
(* admin_list_licenses *)

\* one row of the response
Listed(r) ==
    [key |-> r.key, username |-> r.username, plan |-> r.plan,
     created_at |-> r.created_at, expires_at |-> r.expires_at,
     active |-> (r.active # 0)]

\* ORDER BY created_at DESC: rows created at the same instant come in any order
Orderings(rows) ==
    {s \in [1 .. Cardinality(rows) -> rows] :
        /\ \A i, j \in DOMAIN s : i # j => s[i] # s[j]
        /\ \A i, j \in DOMAIN s :
              i < j => FromIsoFormat(s[i].created_at) >= FromIsoFormat(s[j].created_at)}

admin_list_licenses ==
    /\ \E s \in Orderings(licenses) :
         last' = Call("list", None, None, "listed", None,
                      [licenses |-> [i \in DOMAIN s |-> Listed(s[i])]])
    /\ UNCHANGED <<licenses, now, revoked, ledger, steps>>

----------------------------------------------------------------------------
(* admin_update_license *)

\* if update.active is not None: UPDATE ... SET active
ApplyActive(rows, key, active) ==
    IF active # None THEN SetActive(rows, key, Get(active)) ELSE rows

\* mutant: the new expiry counted from the current time
ExtendedFromNow(current_expires, days) == PlusDays(now, days)

\* new_expires = current_expires + timedelta(days=update.days)
Extended(current_expires, days) == PlusDays(current_expires, days)

\* if update.days is not None: SELECT expires_at, and if a row is there, UPDATE
ApplyDays(rows, key, days) ==
    IF days # None /\ \E r \in rows : r.key = key
    THEN LET r == CHOOSE r \in rows : r.key = key
         IN SetExpires(rows, key, Extended(FromIsoFormat(r.expires_at), Get(days)))
    ELSE rows

Abs(n) == IF n < 0 THEN 0 - n ELSE n

RECURSIVE SumShift(_, _)
SumShift(lg, ks) ==
    IF ks = {} THEN 0
    ELSE LET k == CHOOSE k \in ks : TRUE
         IN Abs(lg[k].days) + SumShift(lg, ks \ {k})

\* days by which the expiries stand away from where they were at insertion
Shifted(lg) == SumShift(lg, DOMAIN lg)

admin_update_license ==
    \E key \in Keys \cup {Minted} :
    \E days \in {None} \cup {Some(d) : d \in UpdateDays} :
    \E active \in {None, Some(TRUE), Some(FALSE)} :
        /\ days # None /\ key \in Keys =>
              Shifted([ledger EXCEPT ![key].days = @ + Get(days)]) <= MaxExtend
        /\ licenses' = ApplyDays(ApplyActive(licenses, key, active), key, days)
        /\ revoked' = IF active # None /\ key \in Keys
                      THEN IF Get(active) THEN revoked \ {key} ELSE revoked \cup {key}
                      ELSE revoked
        /\ ledger' = IF days # None /\ key \in Keys
                     THEN [ledger EXCEPT ![key].days = @ + Get(days)]
                     ELSE ledger
        /\ last' = Call("update", key, [days |-> days, active |-> active],
                        IF key \in Keys THEN "found" ELSE "absent", None,
                        [success |-> TRUE])
        /\ UNCHANGED <<now, steps>>

----------------------------------------------------------------------------
(* The handlers statement by statement.  Clients send requests at any time;  *)
(* the event loop runs the handlers; each handler opens its own connection, *)
(* and sqlite gives the connections its transactions and its write lock.    *)

MaxCalls == 3           \* requests the clients send in all

Procs == {"a", "b"}     \* clients, each with at most one request in flight

\* left alone by the statements
atomic == <<last, revoked, ledger>>

\* a client with no request in flight
Idle ==
    [op |-> "none", pc |-> "idle", key |-> None, args |-> None,
     conn |-> FALSE, row |-> None, at |-> None, res |-> None]

\* mutant: the handlers are `def` functions, run in a pool of threads
ThreadPool(p) == TRUE

\* `async def` handlers without an await, on the one event loop of
\* uvicorn.run: a handler runs from its first statement to its return before
\* the loop turns to another, so client p's handler may run a statement
\* only when no other handler is between its first statement and its return.
Runnable(p) == \A q \in Procs \ {p} : calls[q].pc \in {"idle", "queued", "done"}

\* the table as p's connection reads it: its own uncommitted writes included
View(p) == IF writer = p THEN pending ELSE licenses

\* sqlite's write lock is free for p's connection (otherwise the statement
\* waits)
Unlocked(p) == writer \in {"none", p}

Go(p, c) == calls' = [calls EXCEPT ![p] = c]

\* the handler ends by an exception after sqlite3.connect: nothing closes its
\* connection, nor ends the transaction it may have begun, until the
\* connection object is finalised
Leave(p, res) ==
    /\ Go(p, [calls[p] EXCEPT !.pc = "done", !.res = res, !.conn = FALSE])
    /\ garbage' = garbage + 1
    /\ writer' = IF writer = p THEN "garbage" ELSE writer

\* A request arrives.  The clients send their requests in batches, the next
\* batch once every response of the last is in; client "a" sends the first
\* request of a batch.
Arrive(p, op, key, args) ==
    /\ calls[p].pc = "idle"
    /\ sent < MaxCalls
    /\ sent' = sent + 1
    /\ Go(p, [Idle EXCEPT !.op = op, !.pc = "queued", !.key = key, !.args = args])
    /\ IF \A q \in Procs : calls[q].pc = "idle"
       THEN /\ p = "a"
            /\ before' = licenses
            /\ overlapped' = FALSE
       ELSE /\ UNCHANGED before
            /\ overlapped' =
                  (overlapped \/ \E q \in Procs \ {p} : calls[q].pc \notin {"idle", "done"})
    /\ UNCHANGED <<licenses, now, pending, writer, garbage, atomic>>

Request(p) ==
    \/ \E key \in Keys \cup ForeignTokens \cup BadTokens : Arrive(p, "validate", key, None)
    \/ \E key \in Keys :
       \E days \in {None} \cup {Some(d) : d \in ExtendDays} :
       \E active \in {None, Some(TRUE), Some(FALSE)} :
          Arrive(p, "update", key, [days |-> days, active |-> active])
    \/ \E username \in Users : \E plan \in Plans : \E days \in CreateDays :
          /\ Nonces \ {k.nonce : k \in Keys} # {}
          /\ \A q \in Procs : calls[q].op # "create"
          /\ Arrive(p, "create", None,
                    [username |-> username, plan |-> plan, days |-> days])
    \/ Arrive(p, "list", None, None)

\* line 108: verify_paseto_token; the except branch when it raises
validate_decode(p) ==
    /\ calls[p].op = "validate"
    /\ calls[p].pc = "queued"
    /\ Runnable(p)
    /\ Go(p, IF Decodes(calls[p].key)
             THEN [calls[p] EXCEPT !.pc = "connect"]
             ELSE [calls[p] EXCEPT !.pc = "done", !.res = INVALID_KEY])
    /\ UNCHANGED <<licenses, now, pending, writer, garbage, sent, before, overlapped, atomic>>

\* lines 392-393: expires_at from the clock, the token sealed
create_token(p) ==
    /\ calls[p].op = "create"
    /\ calls[p].pc = "queued"
    /\ Runnable(p)
    /\ \E n \in Nonces \ {k.nonce : k \in Keys} :
         Go(p, [calls[p] EXCEPT
                  !.pc = "connect",
                  !.at = [expires |-> now],
                  !.key = generate_paseto_token(calls[p].args.username, calls[p].args.plan,
                                                PlusDays(now, calls[p].args.days), n)])
    /\ UNCHANGED <<licenses, now, pending, writer, garbage, sent, before, overlapped, atomic>>

\* conn = sqlite3.connect(DATABASE): lines 115, 396, 418, 440
connect(p) ==
    /\ Runnable(p)
    /\ \/ calls[p].pc = "connect"
       \/ calls[p].pc = "queued" /\ calls[p].op \in {"update", "list"}
    /\ Go(p, [calls[p] EXCEPT
                !.conn = TRUE,
                !.pc = CASE calls[p].op = "validate" -> "select"
                         [] calls[p].op = "update" -> "set_active"
                         [] calls[p].op = "create" -> "insert"
                         [] calls[p].op = "list" -> "fetch"])
    /\ UNCHANGED <<licenses, now, pending, writer, garbage, sent, before, overlapped, atomic>>

\* lines 117-118: SELECT active, expires_at ... WHERE key = ?; fetchone
validate_select(p) ==
    /\ calls[p].op = "validate"
    /\ calls[p].pc = "select"
    /\ Runnable(p)
    /\ LET found == {r \in View(p) : r.key = calls[p].key}
       IN IF found = {}
          THEN Go(p, [calls[p] EXCEPT !.pc = "register"])
          ELSE \E r \in found : Go(p, [calls[p] EXCEPT !.pc = "touch", !.row = Some(r)])
    /\ UNCHANGED <<licenses, now, pending, writer, garbage, sent, before, overlapped, atomic>>

\* lines 120-126: fromisoformat of the exp claim, then the INSERT
validate_insert(p) ==
    /\ calls[p].op = "validate"
    /\ calls[p].pc = "register"
    /\ Runnable(p)
    /\ LET key == calls[p].key
           payload == verify_paseto_token(key)
       IN IF payload.exp = None
          THEN \* fromisoformat(None) raises
               /\ Leave(p, INVALID_KEY)
               /\ UNCHANGED <<licenses, now, pending>>
          ELSE /\ Unlocked(p)
               /\ IF InsertOk(key, payload.sub, payload.plan)
                  THEN \E t \in Readings(now, 2) :
                         \* t[1]: last_check, t[2]: CURRENT_TIMESTAMP
                         /\ pending' = View(p) \cup
                               {NewRow(key, payload.sub, payload.plan,
                                       FromIsoFormat(Get(payload.exp)), t[2],
                                       Some(IsoFormat(t[1])))}
                         /\ writer' = p
                         /\ now' = t[2]
                         /\ Go(p, [calls[p] EXCEPT
                                     !.pc = "commit",
                                     !.at = [touch |-> t[1], check |-> t[1], remain |-> t[1]]])
                         /\ UNCHANGED <<licenses, garbage>>
                  ELSE \* the INSERT raises inside the transaction it began
                       /\ Go(p, [calls[p] EXCEPT !.pc = "done", !.res = INVALID_KEY,
                                                 !.conn = FALSE])
                       /\ garbage' = garbage + 1
                       /\ writer' = "garbage"
                       /\ pending' = View(p)
                       /\ UNCHANGED <<licenses, now>>
    /\ UNCHANGED <<sent, before, overlapped, atomic>>

\* lines 129-134: the row's active and expires_at, UPDATE ... SET last_check
validate_touch(p) ==
    /\ calls[p].op = "validate"
    /\ calls[p].pc = "touch"
    /\ Runnable(p)
    /\ Unlocked(p)
    /\ pending' = SetLastCheck(View(p), calls[p].key, now)
    /\ writer' = p
    /\ Go(p, [calls[p] EXCEPT !.pc = "commit",
                              !.at = [touch |-> now, check |-> now, remain |-> now]])
    /\ UNCHANGED <<licenses, now, garbage, sent, before, overlapped, atomic>>

\* lines 443-445: if update.active is not None: UPDATE ... SET active
update_set_active(p) ==
    /\ calls[p].op = "update"
    /\ calls[p].pc = "set_active"
    /\ Runnable(p)
    /\ IF calls[p].args.active # None
       THEN /\ Unlocked(p)
            /\ pending' = ApplyActive(View(p), calls[p].key, calls[p].args.active)
            /\ writer' = p
       ELSE UNCHANGED <<pending, writer>>
    /\ Go(p, [calls[p] EXCEPT
                !.pc = IF calls[p].args.days # None THEN "select_expires" ELSE "commit"])
    /\ UNCHANGED <<licenses, now, garbage, sent, before, overlapped, atomic>>

\* lines 448-450: SELECT expires_at ... WHERE key = ?; fetchone
update_select(p) ==
    /\ calls[p].op = "update"
    /\ calls[p].pc = "select_expires"
    /\ Runnable(p)
    /\ LET found == {r \in View(p) : r.key = calls[p].key}
       IN IF found = {}
          THEN Go(p, [calls[p] EXCEPT !.pc = "extend"])
          ELSE \E r \in found : Go(p, [calls[p] EXCEPT !.pc = "extend", !.row = Some(r)])
    /\ UNCHANGED <<licenses, now, pending, writer, garbage, sent, before, overlapped, atomic>>

\* lines 451-454: if result: UPDATE ... SET expires_at = current + days
update_extend(p) ==
    /\ calls[p].op = "update"
    /\ calls[p].pc = "extend"
    /\ Runnable(p)
    /\ IF calls[p].row # None
       THEN /\ Unlocked(p)
            /\ pending' = SetExpires(View(p), calls[p].key,
                                     Extended(FromIsoFormat(Get(calls[p].row).expires_at),
                                              Get(calls[p].args.days)))
            /\ writer' = p
       ELSE UNCHANGED <<pending, writer>>
    /\ Go(p, [calls[p] EXCEPT !.pc = "commit"])
    /\ UNCHANGED <<licenses, now, garbage, sent, before, overlapped, atomic>>

\* lines 398-401: INSERT; the except branch (HTTP 500) when it raises
create_insert(p) ==
    /\ calls[p].op = "create"
    /\ calls[p].pc = "insert"
    /\ Runnable(p)
    /\ Unlocked(p)
    /\ LET key == calls[p].key
           username == Some(calls[p].args.username)
           plan == Some(calls[p].args.plan)
       IN IF InsertOk(key, username, plan)
          THEN /\ pending' = View(p) \cup
                     {NewRow(key, username, plan, FromIsoFormat(Get(key.exp)), now, None)}
               /\ writer' = p
               /\ Go(p, [calls[p] EXCEPT !.pc = "commit"])
               /\ UNCHANGED garbage
          ELSE /\ Go(p, [calls[p] EXCEPT !.pc = "done", !.res = [status |-> 500],
                                         !.conn = FALSE])
               /\ garbage' = garbage + 1
               /\ writer' = "garbage"
               /\ pending' = View(p)
    /\ UNCHANGED <<licenses, now, sent, before, overlapped, atomic>>

\* lines 420-421: SELECT ... ORDER BY created_at DESC; fetchall
list_fetch(p) ==
    /\ calls[p].op = "list"
    /\ calls[p].pc = "fetch"
    /\ Runnable(p)
    /\ \E s \in Orderings(View(p)) :
         Go(p, [calls[p] EXCEPT !.pc = "close",
                                !.row = Some([i \in DOMAIN s |-> Listed(s[i])])])
    /\ UNCHANGED <<licenses, now, pending, writer, garbage, sent, before, overlapped, atomic>>

\* conn.commit(): lines 127, 135, 402, 456
commit(p) ==
    /\ calls[p].pc = "commit"
    /\ Runnable(p)
    /\ licenses' = View(p)
    /\ writer' = IF writer = p THEN "none" ELSE writer
    /\ Go(p, [calls[p] EXCEPT !.pc = "close"])
    /\ UNCHANGED <<now, pending, garbage, sent, before, overlapped, atomic>>

\* conn.close(), lines 137, 403, 422, 457, and for the admin handlers the
\* return that follows it
close(p) ==
    /\ calls[p].pc = "close"
    /\ Runnable(p)
    /\ Go(p, CASE calls[p].op = "validate" ->
                    [calls[p] EXCEPT !.conn = FALSE, !.pc = "outcome"]
               [] calls[p].op = "update" ->
                    [calls[p] EXCEPT !.conn = FALSE, !.pc = "done",
                                     !.res = [success |-> TRUE]]
               [] calls[p].op = "create" ->
                    [calls[p] EXCEPT !.conn = FALSE, !.pc = "done",
                                     !.res = [success |-> TRUE,
                                              key |-> calls[p].key,
                                              username |-> calls[p].args.username,
                                              plan |-> calls[p].args.plan,
                                              expires_at |->
                                                 StrfDate(FromIsoFormat(Get(calls[p].key.exp)))]]
               [] calls[p].op = "list" ->
                    [calls[p] EXCEPT !.conn = FALSE, !.pc = "done",
                                     !.res = [licenses |-> Get(calls[p].row)]])
    /\ UNCHANGED <<licenses, now, pending, writer, garbage, sent, before, overlapped, atomic>>

\* lines 139-161: the active check, the expiry check, the Valid response
validate_outcome(p) ==
    /\ calls[p].op = "validate"
    /\ calls[p].pc = "outcome"
    /\ Runnable(p)
    /\ LET payload == verify_paseto_token(calls[p].key)
           row == calls[p].row
           active == IF row = None THEN 1 ELSE Get(row).active
           expires_at == IF row = None THEN FromIsoFormat(Get(payload.exp))
                         ELSE FoundExpiry(Get(row), payload)
       IN \E t \in Readings(now, 2) :
            \* t[1]: expiry check, t[2]: days_remaining
            /\ now' = t[2]
            /\ Go(p, [calls[p] EXCEPT
                        !.pc = "done",
                        !.at = [touch |-> calls[p].at.touch, check |-> t[1], remain |-> t[2]],
                        !.res = Outcome(payload, active, expires_at, t[1], t[2])])
    /\ UNCHANGED <<licenses, pending, writer, garbage, sent, before, overlapped, atomic>>

\* the clients have their responses; the next batch may be sent
Settle ==
    /\ \A p \in Procs : calls[p].pc \in {"idle", "done"}
    /\ \E p \in Procs : calls[p].pc = "done"
    /\ calls' = [p \in Procs |-> Idle]
    /\ UNCHANGED <<licenses, now, pending, writer, garbage, sent, before, overlapped, atomic>>

\* the garbage collector finalises a connection object left behind: the
\* connection is closed, its transaction rolled back
Collect ==
    /\ garbage > 0
    /\ garbage' = garbage - 1
    /\ writer' \in IF writer # "garbage" THEN {writer}
                   ELSE IF garbage = 1 THEN {"none"} ELSE {"none", "garbage"}
    /\ UNCHANGED <<licenses, now, pending, calls, sent, before, overlapped, atomic>>

-------
(* The clock *)

Tick ==
    /\ now < MaxTime
    /\ now' = now + 1
    /\ UNCHANGED <<licenses, last, revoked, ledger, steps>>

----------------------------------------------------------------------------

Init ==
    /\ licenses = {}
    /\ now = 0
    /\ last = Call("start", None, None, "none", None, None)
    /\ revoked = {}
    /\ ledger = <<>>
    /\ calls = [p \in Procs |-> Idle]
    /\ pending = {}
    /\ writer = "none"
    /\ garbage = 0
    /\ sent = 0
    /\ before = {}
    /\ overlapped = FALSE

Next ==
    \/ validate_license
    \/ admin_create_license
    \/ admin_list_licenses
    \/ admin_update_license
    \/ Tick

Spec == Init /\ [][Next]_vars

\* the same server, the admin creating licenses of zero or negative days only
NextDays ==
    \/ validate_license
    \/ admin_create_expired
    \/ admin_list_licenses
    \/ admin_update_license
    \/ Tick

SpecDays == Init /\ [][NextDays]_vars

\* the same server, its handlers taken statement by statement
NextSteps ==
    \/ \E p \in Procs :
          \/ Request(p)
          \/ validate_decode(p)
          \/ create_token(p)
          \/ connect(p)
          \/ validate_select(p)
          \/ validate_insert(p)
          \/ validate_touch(p)
          \/ update_set_active(p)
          \/ update_select(p)
          \/ update_extend(p)
          \/ create_insert(p)
          \/ list_fetch(p)
          \/ commit(p)
          \/ close(p)
          \/ validate_outcome(p)
    \/ Settle
    \/ Collect
    \/ Tick

SpecSteps == Init /\ [][NextSteps]_vars

----------------------------------------------------------------------------
(* Vocabulary of the properties *)

\* the step is a call of handler op (a Tick leaves `last` as it is and moves
\* only the clock; a call repeated with the same arguments leaves the clock)
Called(op) == last'.op = op /\ ~(last' = last /\ now' # now)

\* the token carries the three claims validate reads
HasClaims(token) == token.sub # None /\ token.plan # None /\ token.exp # None

\* the token is one verify_paseto_token must refuse
Forged(token) == token.seal # "ok" \/ token.footer # "license-v1"

\* the fields of a row that are fixed at insertion
Identity(r) == <<r.key, r.username, r.plan, r.created_at>>

\* client p's request is an op call that has returned
Returned(p, op) == calls[p].op = op /\ calls[p].pc = "done"

\* the days an update call adds, the active values it sets
DaysOf(c) == IF c.args.days = None THEN 0 ELSE Get(c.args.days)
ActiveOf(c) ==
    IF c.args.active = None THEN {} ELSE {IF Get(c.args.active) THEN 1 ELSE 0}

\* connections open at the moment
OpenConnections == garbage + Cardinality({p \in Procs : calls[p].conn})

----------------------------------------------------------------------------
(* C1 *)

\* C1: once adminUpdate(key, active=false) has been applied to a registered
\* key, and until an adminUpdate(key, active=true), every validate(key)
\* answers "deactivated by administrator", whether or not the record's
\* expiry has passed.
C1_DeactivationWins ==
    (last.op = "validate" /\ last.key \in revoked) => last.res = DEACTIVATED

\* a deactivated license whose expiry has passed as well is reported deactivated
C1_Witness ==
    /\ last.op = "validate"
    /\ last.key \in revoked
    /\ last.res = DEACTIVATED
    /\ \E r \in Select(last.key) : r.expires_at.iso < last.reads.check

----------------------------------------------------------------------------
(* C2 *)

\* C2: validate on a key that has an active record decides expiry from the
\* record's expires_at alone: "license expired" exactly when the clock read by
\* the expiry check is past it, Valid otherwise, whatever expiry the token
\* embeds.
C2_StoreExpiryDecides ==
    (last.op = "validate" /\ last.branch = "found") =>
        \A r \in Select(last.key) :
            r.active = 1 =>
                /\ (last.res = EXPIRED) = (last.reads.check > r.expires_at.iso)
                /\ last.res.valid = ~(last.reads.check > r.expires_at.iso)

\* the token's own expiry has passed, the admin extended the record: Valid
C2_Witness ==
    /\ last.op = "validate"
    /\ last.branch = "found"
    /\ last.res.valid
    /\ Get(last.key.exp).iso < last.reads.check
    /\ \E r \in Select(last.key) : r.active = 1 /\ last.reads.check <= r.expires_at.iso

----------------------------------------------------------------------------
(* C3 *)

\* the row first-use registration is to insert for token key
Registered(key, r) ==
    /\ r.key = key
    /\ r.active = 1
    /\ r.username = Get(key.sub)
    /\ r.plan = Get(key.plan)
    /\ r.expires_at.iso = Get(key.exp).iso

\* C3 as stated: validating a token that decodes (and carries its claims) and
\* has no record succeeds, and the store gains exactly the one record above.
C3_Original ==
    [][(Called("validate") /\ ~Forged(last'.key) /\ HasClaims(last'.key)
          /\ Select(last'.key) = {})
       => /\ last'.res.valid
          /\ \E r \in licenses' \ licenses :
                licenses' = licenses \cup {r} /\ Registered(last'.key, r)]_vars

\* C3, amended: validating a token that decodes, carries sub, plan and exp and
\* has no record adds exactly one record, keyed by the token, active, with the
\* token's username, plan and embedded expiry, and changes no other record;
\* the call answers Valid, or "license expired" when the embedded expiry has
\* already passed.
C3_FirstUseRegisters ==
    [][(Called("validate") /\ ~Forged(last'.key) /\ HasClaims(last'.key)
          /\ Select(last'.key) = {})
       => /\ \E r \in licenses' \ licenses :
                licenses' = licenses \cup {r} /\ Registered(last'.key, r)
          /\ \/ last'.res.valid
             \/ /\ last'.res = EXPIRED
                /\ Get(last'.key.exp).iso < last'.reads.check]_vars

\* a first validation that registered its token next to an older record
C3_Witness ==
    /\ last.op = "validate"
    /\ last.branch = "register"
    /\ last.res.valid
    /\ Cardinality(licenses) = 2
    /\ \E r \in licenses : Registered(last.key, r)

----------------------------------------------------------------------------
(* C4 *)

\* C4 as stated: a validate that takes the register branch answers Valid.
C4_Original ==
    (last.op = "validate" /\ last.branch = "register") => last.res.valid

\* C4, amended: a validate that takes the register branch treats the license
\* as active in that same call: it never answers "deactivated" or "invalid
\* license key", and it answers Valid unless the token's embedded expiry has
\* passed, in which case it answers "license expired".
C4_RegisterIsActive ==
    (last.op = "validate" /\ last.branch = "register") =>
        /\ last.res # DEACTIVATED
        /\ last.res # INVALID_KEY
        /\ last.res.valid = (last.reads.check <= Get(last.key.exp).iso)

\* registration at the very instant the token expires: still Valid
C4_Witness ==
    /\ last.op = "validate"
    /\ last.branch = "register"
    /\ last.res.valid
    /\ last.reads.check = Get(last.key.exp).iso

----------------------------------------------------------------------------
(* C5 *)

\* C5: extension is additive: a record whose expiry was T at insertion and
\* whose adminUpdate(days=d) calls since add up to n days has expires_at
\* T + n days, whatever the clock and the token's embedded expiry are.
C5_ExtensionAdditive ==
    \A r \in licenses :
        r.expires_at.iso = ledger[r.key].exp0 + ledger[r.key].days * TicksPerDay

\* a second one-day extension has just left the record at T + 2 days
C5_Witness ==
    /\ last.op = "update"
    /\ last.branch = "found"
    /\ last.args.days = Some(1)
    /\ ledger[last.key].days = 2
    /\ \E r \in Select(last.key) :
          r.expires_at.iso = ledger[last.key].exp0 + 2 * TicksPerDay

----------------------------------------------------------------------------
(* C6 *)

\* C6 as stated: validate of an active registered key at the very instant
\* now = expires_at answers "license expired".
C6_Original ==
    (last.op = "validate" /\ last.branch = "found") =>
        \A r \in Select(last.key) :
            (r.active = 1 /\ last.reads.check = r.expires_at.iso) => last.res = EXPIRED

\* C6, amended: validate of an active registered key at the very instant
\* now = expires_at answers Valid; the license is expired only once
\* now > expires_at.
C6_BoundaryIsValid ==
    (last.op = "validate" /\ last.branch = "found") =>
        \A r \in Select(last.key) :
            (r.active = 1 /\ last.reads.check = r.expires_at.iso) => last.res.valid

\* an admin-created license validated at the instant it expires
C6_Witness ==
    /\ last.op = "validate"
    /\ last.branch = "found"
    /\ last.res.valid
    /\ \E r \in Select(last.key) :
          r.active = 1 /\ last.reads.check = r.expires_at.iso

----------------------------------------------------------------------------
(* C7 *)

\* C7: a validate whose token does not decode answers the generic "invalid
\* license key" and leaves every record of the store as it was.
C7_BadTokenRefused ==
    [][(Called("validate") /\ Forged(last'.key))
       => (last'.res = INVALID_KEY /\ licenses' = licenses)]_vars

\* a registered key with a bit flipped was presented and refused
C7_Witness ==
    /\ last.op = "validate"
    /\ last.key.seal = "tampered"
    /\ last.res = INVALID_KEY
    /\ \E r \in licenses : Tampered(r.key) = last.key

----------------------------------------------------------------------------
(* C8 *)

\* C8: adminUpdate on a key without a record, whatever days and active it is
\* given, answers success, creates no record and changes no record.
C8_UpdateAbsentIsNoOp ==
    [][(Called("update") /\ Select(last'.key) = {})
       => (last'.res = [success |-> TRUE] /\ licenses' = licenses)]_vars

\* an update giving both days and active for an unregistered key, with a
\* record of another key in the store
C8_Witness ==
    /\ last.op = "update"
    /\ Select(last.key) = {}
    /\ last.args.days # None
    /\ last.args.active = Some(FALSE)
    /\ licenses # {}

----------------------------------------------------------------------------
(* C9 *)

\* C9: adminCreate(username, plan, days) adds exactly one record, keyed by the
\* new token, active, with that username and plan and expires_at = now + days,
\* which is the expiry the token embeds; with days > 0 a validate of the token
\* that follows within a day answers Valid with that username and plan and
\* daysRemaining days or days - 1; and a validate that follows
\* adminUpdate(token, active=false) answers "deactivated".
C9_CreateThenValidate ==
    [][/\ Called("create") =>
            \E r \in licenses' \ licenses :
                /\ licenses' = licenses \cup {r}
                /\ r.key = last'.res.key
                /\ r.key \notin Keys
                /\ r.active = 1
                /\ r.username = last'.args.username
                /\ r.plan = last'.args.plan
                /\ r.expires_at.iso = last'.reads.expires + last'.args.days * TicksPerDay
                /\ Get(r.key.exp).iso = r.expires_at.iso
                /\ ~Forged(r.key)
       /\ (/\ Called("validate")
           /\ last.op = "create"
           /\ last'.key = last.res.key
           /\ last.args.days > 0
           /\ last'.reads.remain - last.reads.expires < TicksPerDay)
            => /\ last'.res.valid
               /\ last'.res.username = last.args.username
               /\ last'.res.plan = last.args.plan
               /\ last'.res.days_remaining \in {last.args.days, last.args.days - 1}
       /\ (/\ Called("validate")
           /\ last.op = "update"
           /\ last.branch = "found"
           /\ last'.key = last.key
           /\ last.args.active = Some(FALSE))
            => last'.res = DEACTIVATED]_vars

\* a one-day license validated within the day of its creation, the clock
\* having moved on: Valid, no full day remaining
C9_Witness ==
    /\ last.op = "validate"
    /\ last.branch = "found"
    /\ last.key.nonce \in Nonces
    /\ last.res.valid
    /\ last.res.days_remaining = 0
    /\ ledger[last.key].days = 0
    /\ \E r \in Select(last.key) :
          /\ r.expires_at.iso > r.created_at.iso
          /\ last.res.username = r.username
          /\ last.res.plan = r.plan

----------------------------------------------------------------------------
(* C10 *)

\* C10: no call deletes or re-keys a record or changes its key, username,
\* plan or created_at, and the store never holds two records of one key.
C10_Lifecycle ==
    [][/\ \A r \in licenses : \E q \in licenses' : Identity(q) = Identity(r)
       /\ \A q, r \in licenses' : q.key = r.key => q = r]_vars

\* two records, one of them deactivated, extended and checked since insertion
C10_Witness ==
    /\ Cardinality(licenses) = 2
    /\ \E r \in licenses :
          /\ r.active = 0
          /\ ledger[r.key].days # 0
          /\ r.last_check # None
          /\ r.last_check # Some(r.created_at)

----------------------------------------------------------------------------
(* C11 *)

\* C11: two adminUpdate calls on one existing key that were in flight
\* together have both returned: the record's expires_at is its expires_at
\* from before the two plus the days of both, and its active flag is the one
\* a call set (the flag from before when neither set it).
C11_NoLostUpdate ==
    \A p \in Procs : \A q \in Procs \ {p} :
        (/\ overlapped
         /\ Returned(p, "update")
         /\ Returned(q, "update")
         /\ calls[p].key = calls[q].key
         /\ \E r0 \in before : r0.key = calls[p].key)
        => \E r0 \in before : \E r \in licenses :
              /\ r0.key = calls[p].key
              /\ r.key = calls[p].key
              /\ r.expires_at.iso =
                    r0.expires_at.iso
                       + (DaysOf(calls[p]) + DaysOf(calls[q])) * TicksPerDay
              /\ r.active \in
                    IF ActiveOf(calls[p]) \cup ActiveOf(calls[q]) = {}
                    THEN {r0.active}
                    ELSE ActiveOf(calls[p]) \cup ActiveOf(calls[q])

\* an extension and an extension with a deactivation, sent together: the
\* record is deactivated and two days on
C11_Witness ==
    /\ overlapped
    /\ Returned("a", "update")
    /\ Returned("b", "update")
    /\ calls["a"].key = calls["b"].key
    /\ calls["a"].args = [days |-> Some(1), active |-> None]
    /\ calls["b"].args = [days |-> Some(1), active |-> Some(FALSE)]
    /\ \E r0 \in before : \E r \in licenses :
          /\ r0.key = calls["a"].key
          /\ r.key = r0.key
          /\ r0.active = 1
          /\ r.active = 0
          /\ r.expires_at.iso = r0.expires_at.iso + 2 * TicksPerDay

----------------------------------------------------------------------------
(* C12 *)

\* C12: whenever no call is in progress, no store connection is open: every
\* call has closed the connection it opened, on whatever path it ended.
C12_Original ==
    (\A p \in Procs : calls[p].pc \in {"idle", "queued", "done"})
        => OpenConnections = 0

----------------------------------------------------------------------------
(* C13 *)

\* C13: of two validate calls on the same token with nothing but the clock
\* moving between them, the first Valid: the second is Valid too as long as
\* the record's expiry has not passed, and then it reports the same username
\* and plan and a daysRemaining no greater than the first.
C13_IdempotentLookup ==
    [][(/\ Called("validate")
        /\ last.op = "validate"
        /\ last.res.valid
        /\ last'.key = last.key)
       => /\ (\A r \in Select(last.key) : last'.reads.check <= r.expires_at.iso)
                => last'.res.valid
          /\ last'.res.valid =>
                /\ last'.res.username = last.res.username
                /\ last'.res.plan = last.res.plan
                /\ last'.res.days_remaining <= last.res.days_remaining]_vars

\* the token that an earlier validate registered, never extended or
\* deactivated since, is found and reported Valid again
C13_Witness ==
    /\ last.op = "validate"
    /\ last.branch = "found"
    /\ last.key = Minted
    /\ last.res.valid
    /\ last.res.username = "bob"
    /\ ledger[last.key].days = 0
    /\ last.key \notin revoked

----------------------------------------------------------------------------
(* C14 *)

\* the record of key was created by adminCreate with days <= 0: its token's
\* expiry is not after the instant the record was created
CreatedExpired(key) ==
    /\ key.nonce \in Nonces
    /\ \E r \in Select(key) : Get(key.exp).iso <= r.created_at.iso

\* C14 as stated: adminCreate with days <= 0 succeeds and inserts the record,
\* and every validate of its token, the expiry not having been moved later,
\* answers "license expired".
C14_Original ==
    [][/\ (Called("create") /\ last'.args.days <= 0) =>
            /\ last'.res.success
            /\ \E r \in licenses' \ licenses : r.key = last'.res.key
       /\ (Called("validate") /\ CreatedExpired(last'.key)
             /\ ledger[last'.key].days <= 0)
            => last'.res = EXPIRED]_vars

\* C14, amended: adminCreate with days <= 0 succeeds, inserts the record with
\* expires_at = now + days (not after now) and returns its token; a validate
\* of that token, the expiry not having been moved later, answers
\* "deactivated" if the license has been deactivated, and otherwise "license
\* expired", except when its expiry check reads the very instant of the
\* record's expiry (days = 0, the instant of creation), where it answers
\* Valid.
C14_NonPositiveDays ==
    [][/\ (Called("create") /\ last'.args.days <= 0) =>
            /\ last'.res.success
            /\ \E r \in licenses' \ licenses :
                  /\ licenses' = licenses \cup {r}
                  /\ r.key = last'.res.key
                  /\ r.expires_at.iso = last'.reads.expires + last'.args.days * TicksPerDay
                  /\ r.expires_at.iso <= last'.reads.expires
       /\ (Called("validate") /\ CreatedExpired(last'.key)
             /\ ledger[last'.key].days <= 0)
            => \/ last'.res = DEACTIVATED /\ last'.key \in revoked
               \/ last'.res = EXPIRED /\ last'.key \notin revoked
               \/ /\ last'.res.valid
                  /\ last'.key \notin revoked
                  /\ ledger[last'.key].days = 0
                  /\ last'.reads.check = Get(last'.key.exp).iso]_vars

\* a license created with days = -1 and validated at the instant of its
\* creation: expired
C14_Witness ==
    /\ last.op = "validate"
    /\ last.branch = "found"
    /\ last.res = EXPIRED
    /\ ledger[last.key].days = 0
    /\ \E r \in Select(last.key) :
          /\ r.active = 1
          /\ r.created_at.iso = last.reads.check
          /\ r.expires_at.iso + TicksPerDay <= last.reads.check

----------------------------------------------------------------------------
(* C15 *)

\* the answer of validate call c is the one a record with these active and
\* expires_at values gets
Answers(c, active, expires_at) ==
    /\ (c.res = DEACTIVATED) = (active = 0)
    /\ (c.res = EXPIRED) = (active = 1 /\ c.at.check > expires_at)
    /\ c.res.valid = (active = 1 /\ c.at.check <= expires_at)
    /\ c.res.valid =>
          c.res.days_remaining = (expires_at - c.at.remain) \div TicksPerDay

\* C15: a validate and an adminUpdate of one existing key that were in flight
\* together have both returned: validate's answer is the one the record's
\* active and expires_at from before the update give, or the one those from
\* after it give, and the record holds the update's active and expires_at
\* and validate's last_check.
C15_ValidateSerializes ==
    \A p \in Procs : \A q \in Procs \ {p} :
        (/\ overlapped
         /\ Returned(p, "validate")
         /\ Returned(q, "update")
         /\ calls[p].key = calls[q].key
         /\ \E r0 \in before : r0.key = calls[p].key)
        => \E r0 \in before :
              LET r1 == [r0 EXCEPT
                           !.active = IF ActiveOf(calls[q]) = {} THEN @
                                      ELSE CHOOSE a \in ActiveOf(calls[q]) : TRUE,
                           !.expires_at =
                               [iso |-> @.iso + DaysOf(calls[q]) * TicksPerDay]]
              IN /\ r0.key = calls[p].key
                 /\ \E r \in {r0, r1} :
                       Answers(calls[p], r.active, r.expires_at.iso)
                 /\ \E r \in licenses :
                       /\ r.key = r0.key
                       /\ r.active = r1.active
                       /\ r.expires_at = r1.expires_at
                       /\ r.last_check = Some([iso |-> calls[p].at.touch])

\* sent with a deactivation that also extends, validate answered for the
\* record as it was before, and the record holds the update and the check
C15_Witness ==
    /\ overlapped
    /\ Returned("a", "validate")
    /\ Returned("b", "update")
    /\ calls["a"].key = calls["b"].key
    /\ calls["b"].args = [days |-> Some(1), active |-> Some(FALSE)]
    /\ calls["a"].res.valid
    /\ \E r0 \in before : \E r \in licenses :
          /\ r0.key = calls["a"].key
          /\ r.key = r0.key
          /\ r0.active = 1
          /\ r.active = 0
          /\ r.expires_at.iso = r0.expires_at.iso + TicksPerDay
          /\ r.last_check = Some([iso |-> calls["a"].at.touch])

----------------------------------------------------------------------------
(* C16 *)

\* C16: two validate calls of one token that decodes, carries its claims, has
\* not expired and had no record, in flight together, have both returned:
\* both answered Valid and the store holds exactly one record of the token.
C16_ConcurrentFirstValidations ==
    \A p \in Procs : \A q \in Procs \ {p} :
        (/\ overlapped
         /\ Returned(p, "validate")
         /\ Returned(q, "validate")
         /\ calls[p].key = calls[q].key
         /\ ~Forged(calls[p].key)
         /\ HasClaims(calls[p].key)
         /\ \A r0 \in before : r0.key # calls[p].key
         /\ now <= Get(calls[p].key.exp).iso)
        => /\ calls[p].res.valid
           /\ calls[q].res.valid
           /\ Cardinality({r \in licenses : r.key = calls[p].key}) = 1

\* the first call registered the token, the second found the record
C16_Witness ==
    /\ overlapped
    /\ Returned("a", "validate")
    /\ Returned("b", "validate")
    /\ calls["a"].key = Minted
    /\ calls["b"].key = Minted
    /\ before = {}
    /\ calls["a"].res.valid
    /\ calls["b"].res.valid
    /\ \E p \in Procs : calls[p].row = None
    /\ \E p \in Procs : calls[p].row # None
    /\ Cardinality(licenses) = 1

----------------------------------------------------------------------------
(* C17 *)

\* C17: adminCreate inserts its record with last_check null; a validate whose
\* token decodes leaves the record of that token with last_check equal to the
\* clock value the call read, whatever it answers; no other call changes a
\* record's last_check, and last_check never goes back.
C17_LastCheckTracks ==
    [][/\ Called("create") =>
            \A q \in licenses' \ licenses : q.last_check = None
       /\ (Called("validate") /\ ~Forged(last'.key)) =>
            \A q \in licenses' :
                q.key = last'.key =>
                    /\ q.last_check = Some([iso |-> last'.reads.touch])
                    /\ now <= last'.reads.touch
                    /\ last'.reads.touch <= now'
       /\ \A r \in licenses : \A q \in licenses' :
            q.key = r.key =>
                /\ q.last_check # r.last_check =>
                      (Called("validate") /\ last'.key = r.key)
                /\ r.last_check # None =>
                      /\ q.last_check # None
                      /\ Get(q.last_check).iso >= Get(r.last_check).iso]_vars

\* a deactivated license was checked again, later than its previous check
C17_Witness ==
    /\ last.op = "validate"
    /\ last.branch = "found"
    /\ last.res = DEACTIVATED
    /\ last.reads.touch = MaxTime
    /\ \E r \in Select(last.key) :
          /\ r.last_check = Some([iso |-> MaxTime])
          /\ r.created_at.iso < MaxTime

----------------------------------------------------------------------------
(* C18 *)

\* C18: adminUpdate of an existing key changes active only when active is
\* given and expires_at only when days is given, to the value given and by
\* the days given, both in the one step when both are given, and nothing else
\* of the record; validate of an existing key changes nothing but that
\* record's last_check; adminList changes nothing; and no call changes a
\* record of another key than its own.
C18_Frame ==
    [][/\ Called("update") =>
            \A r \in Select(last'.key) : \E q \in licenses' :
                /\ Identity(q) = Identity(r)
                /\ q.last_check = r.last_check
                /\ q.active = IF last'.args.active = None THEN r.active
                              ELSE IF Get(last'.args.active) THEN 1 ELSE 0
                /\ q.expires_at.iso =
                       IF last'.args.days = None THEN r.expires_at.iso
                       ELSE r.expires_at.iso + Get(last'.args.days) * TicksPerDay
       /\ Called("validate") =>
            \A r \in Select(last'.key) : \E q \in licenses' :
                [q EXCEPT !.last_check = r.last_check] = r
       /\ Called("list") => licenses' = licenses
       /\ \A r \in licenses :
            (r \notin licenses') => (last'.key = r.key /\ last'.op \in {"update", "validate"})
       /\ Cardinality(licenses') <=
            Cardinality(licenses) + (IF last'.op \in {"create", "validate"} THEN 1 ELSE 0)]_vars

\* one update deactivated and extended a record next to another record
C18_Witness ==
    /\ last.op = "update"
    /\ last.branch = "found"
    /\ last.args.active = Some(FALSE)
    /\ last.args.days = Some(1)
    /\ Cardinality(licenses) = 2
    /\ \E r \in Select(last.key) :
          /\ r.active = 0
          /\ ledger[r.key].days = 1
          /\ r.last_check # None

----------------------------------------------------------------------------
(* C19 *)

\* C19: a Valid answer carries daysRemaining = floor((expires_at - now) in
\* days) for the instant now at which the expiry check passed, so
\* daysRemaining >= 0 in every Valid answer.
C19_Original ==
    (last.op = "validate" /\ last.res.valid) =>
        \A r \in Select(last.key) :
            /\ last.res.days_remaining =
                   (ledger[r.key].exp0 + ledger[r.key].days * TicksPerDay
                      - last.reads.check) \div TicksPerDay
            /\ last.res.days_remaining >= 0

----------------------------------------------------------------------------
(* C20 *)

\* C20: every record's key is a token that decodes under this server's key
\* and footer, and the record's username and plan are the sub and plan claims
\* of that token.
C20_StoreMatchesTokens ==
    \A r \in licenses :
        /\ ~Forged(r.key)
        /\ r.key.sub = Some(r.username)
        /\ r.key.plan = Some(r.plan)

\* an admin-created record and a record registered by validate, both updated
\* since
C20_Witness ==
    /\ Cardinality(licenses) = 2
    /\ \E r \in licenses : r.key = Minted /\ r.username = "bob" /\ r.active = 0
    /\ \E r \in licenses : r.key.nonce \in Nonces /\ ledger[r.key].days # 0

====
